---------------------------- MODULE Spec2Model ----------------------------
(***************************************************************************)
(* A model of package matrix of iuga/gomath: the generic dense Matrix2D,   *)
(* its construction (New2D with the WithData / WithConstant options), the  *)
(* bounds-checked Set and At, the view-producing Slice and the in-place    *)
(* Update.                                                                 *)
(*                                                                         *)
(* Go slices are modelled as slice headers over backing arrays: the heap   *)
(* maps an array id to the array's elements, and a row of a matrix is a    *)
(* header [arr, off, len, cap] into one array.  Indexing a slice outside   *)
(* 0..len-1 and re-slicing it outside 0 <= lo <= hi <= cap are run-time    *)
(* panics in Go; every operation here returns "ok", "err" (the error value *)
(* the Go function returns) or "panic".                                    *)
(***************************************************************************)
EXTENDS Integers, Sequences, FiniteSets, TLC

\* The largest matrices the callers build: at most MaxWidth columns and
\* MaxHeight rows.  The caller of Spec, who stores every content, builds at
\* most MaxCells cells (Width * Height); the caller of SpecOverlap builds the
\* MaxWidth x MaxHeight matrix.
MaxWidth == 3

MaxHeight == 2

MaxCells == 4

\* The vectors given to Cross have coordinates in -MaxCoordinate .. MaxCoordinate.
MaxCoordinate == 2

\* The element values the callers store (T is instantiated with int).
Number == {0, 1}

VARIABLES
    heap,    \* the backing arrays: heap[a] is the a-th allocated []T
    mats,    \* the caller's matrices: "m" built by New2D, "s" returned by Slice
    origin,  \* history: the ranges of the Slice call on m that returned s
    last,    \* history: the last call, its outcome and, of New2D, its arguments
    vec      \* the caller's two vectors and what Cross last returned for them

vars == <<heap, mats, origin, last, vec>>

Max(a, b) == IF a >= b THEN a ELSE b

-----------------------------------------------------------------------------
(* Types *)

NewShape(width, height) == [Width |-> width, Height |-> height]

NewPosition(row, column) == [Row |-> row, Column |-> column]

\* vector.New2D[int](x, y): Slice takes its two ranges as vectors (X = start, Y = end)
NewVector2D(x, y) == [X |-> x, Y |-> y]

\* A Go slice header over the backing array arr: elements off+1 .. off+len of
\* heap[arr] (1-based in the heap), re-sliceable up to cap.
SliceHeader(arr, off, len, cap) == [arr |-> arr, off |-> off, len |-> len, cap |-> cap]

\* Matrix2D{Values, Shape}: Values is a slice of row headers; both make calls
\* that build one (New2D's after its appends, Slice's vrows) leave cap = len.
Matrix2D(values, shape) == [Values |-> values, Shape |-> shape]

\* The nil *Matrix2D that New2D and Slice return beside an error.
NoMatrix == Matrix2D(<<>>, NewShape(-1, -1))

GetShape(m) == m.Shape

\* cap(m.Values)
ValuesCap(m) == Len(m.Values)

-----------------------------------------------------------------------------
(* Bounds-checked access *)

\* A variant that forgets the negative rows and columns.
isPositionOutOfBoundsUpperOnly(m, p) ==
    \/ p.Row >= GetShape(m).Height
    \/ p.Column >= GetShape(m).Width

isPositionOutOfBounds(m, p) ==
    \/ p.Row >= GetShape(m).Height
    \/ p.Column >= GetShape(m).Width
    \/ p.Row < 0
    \/ p.Column < 0

\* m.Values[position.Row][position.Column] is an index expression: Go panics
\* when an index is outside 0 .. len-1.
IndexPanics(m, p) ==
    \/ p.Row < 0
    \/ p.Row >= Len(m.Values)
    \/ p.Column < 0
    \/ p.Column >= m.Values[p.Row + 1].len

\* The heap address <<array, index>> of m.Values[row][column].
CellAddr(m, row, column) ==
    <<m.Values[row + 1].arr, m.Values[row + 1].off + column + 1>>

Load(hp, addr) == hp[addr[1]][addr[2]]

Store(hp, addr, value) == [hp EXCEPT ![addr[1]][addr[2]] = value]

Set(m, position, value, hp) ==
    IF isPositionOutOfBounds(m, position)
    THEN [res |-> "err", heap |-> hp]
    ELSE IF IndexPanics(m, position)
    THEN [res |-> "panic", heap |-> hp]
    ELSE [res |-> "ok",
          heap |-> Store(hp, CellAddr(m, position.Row, position.Column), value)]

At(m, position, hp) ==
    IF isPositionOutOfBounds(m, position)
    THEN [res |-> "err", val |-> 0]
    ELSE IF IndexPanics(m, position)
    THEN [res |-> "panic", val |-> 0]
    ELSE [res |-> "ok",
          val |-> Load(hp, CellAddr(m, position.Row, position.Column))]

-----------------------------------------------------------------------------
(* Slicing *)

\* s[lo:hi] on a Go slice panics unless 0 <= lo <= hi <= cap(s).
ReslicePanics(lo, hi, cap) == ~(0 <= lo /\ lo <= hi /\ hi <= cap)

\* The header of h[lo:hi]: the same array, len hi-lo, cap shrunk by lo.
Reslice(h, lo, hi) == SliceHeader(h.arr, h.off + lo, hi - lo, h.cap - lo)

\* The shape Slice computes from the column range x and the row range y.
SliceShape(x, y) == NewShape(x.Y + 1 - x.X, x.Y + 1 - x.X)

SliceRejects(m, shape) ==
    \/ shape.Width < 0
    \/ shape.Height < 0
    \/ shape.Width > GetShape(m).Width
    \/ shape.Height > GetShape(m).Height

Slice(m, x, y) ==
    LET shape == SliceShape(x, y) IN
    IF SliceRejects(m, shape)
    THEN [res |-> "err", mat |-> NoMatrix]
    ELSE IF ReslicePanics(y.X, y.Y + 1, ValuesCap(m))
    THEN [res |-> "panic", mat |-> NoMatrix]
    ELSE LET rows == [i \in 1 .. (y.Y + 1 - y.X) |-> m.Values[y.X + i]] IN
         IF \E i \in DOMAIN rows : ReslicePanics(x.X, x.Y + 1, rows[i].cap)
         THEN [res |-> "panic", mat |-> NoMatrix]
         ELSE [res |-> "ok",
               mat |-> Matrix2D([i \in DOMAIN rows |-> Reslice(rows[i], x.X, x.Y + 1)],
                                shape)]

-----------------------------------------------------------------------------
(* Update *)

\* A variant that also refuses a section ending exactly on the far edge.
SectionOutOfBoundsInclusive(m, position, matrix) ==
    \/ position.Column + GetShape(matrix).Width >= GetShape(m).Width
    \/ position.Row + GetShape(matrix).Height >= GetShape(m).Height

SectionOutOfBounds(m, position, matrix) ==
    \/ position.Column + GetShape(matrix).Width > GetShape(m).Width
    \/ position.Row + GetShape(matrix).Height > GetShape(m).Height

\* A variant that adds the source's row to the column and its column to the row.
UpdateTargetSwapped(position, y, x) == NewPosition(x + position.Row, y + position.Column)

\* The cell of the target that receives the source's cell (y, x).
UpdateTarget(position, y, x) == NewPosition(y + position.Row, x + position.Column)

\* The two nested loops of Update, row-major; k counts the cells already
\* copied.  Each cell is read from the source with At and written with Set on
\* the heap as the earlier writes left it; Set's error value is dropped.
RECURSIVE UpdateLoop(_, _, _, _, _)
UpdateLoop(m, position, matrix, hp, k) ==
    LET w == GetShape(matrix).Width
        h == GetShape(matrix).Height
    IN  IF h <= 0 \/ w <= 0 \/ k >= h * w
        THEN [res |-> "ok", heap |-> hp]
        ELSE LET y == k \div w
                 x == k % w
                 a == At(matrix, NewPosition(y, x), hp)
             IN  IF a.res # "ok"
                 THEN [res |-> a.res, heap |-> hp]
                 ELSE LET s == Set(m, UpdateTarget(position, y, x), a.val, hp) IN
                      IF s.res = "panic"
                      THEN [res |-> "panic", heap |-> s.heap]
                      ELSE UpdateLoop(m, position, matrix, s.heap, k + 1)

Update(m, position, matrix, hp) ==
    IF isPositionOutOfBounds(m, position)
    THEN [res |-> "err", heap |-> hp]
    ELSE IF SectionOutOfBounds(m, position, matrix)
    THEN [res |-> "err", heap |-> hp]
    ELSE UpdateLoop(m, position, matrix, hp, 0)

-----------------------------------------------------------------------------
(* Construction *)

\* A Matrix2DOpts value: the option's kind and what its closure captured.
WithData(data) == [kind |-> "WithData", data |-> data, k |-> 0]

WithConstant(k) == [kind |-> "WithConstant", data |-> <<>>, k |-> k]

\* WithData's two range loops over data: row r, element c (1-based here).
RECURSIVE DataLoop(_, _, _, _, _)
DataLoop(m, data, hp, r, c) ==
    IF r > Len(data)
    THEN [res |-> "ok", heap |-> hp]
    ELSE IF c > Len(data[r])
    THEN DataLoop(m, data, hp, r + 1, 1)
    ELSE LET s == Set(m, NewPosition(r - 1, c - 1), data[r][c], hp) IN
         IF s.res # "ok"
         THEN s
         ELSE DataLoop(m, data, s.heap, r, c + 1)

\* The closure WithData returns, applied to m.  A nil data and an empty data
\* both have length 0 and both return an error.
ApplyWithData(data, m, hp) ==
    IF Len(data) = 0
    THEN [res |-> "err", heap |-> hp]
    ELSE IF Len(data) # GetShape(m).Height
    THEN [res |-> "err", heap |-> hp]
    ELSE IF Len(data[1]) # GetShape(m).Width
    THEN [res |-> "err", heap |-> hp]
    ELSE DataLoop(m, data, hp, 1, 1)

\* WithConstant's two loops, row-major; i counts the cells already set.
RECURSIVE ConstantLoop(_, _, _, _)
ConstantLoop(k, m, hp, i) ==
    LET w == GetShape(m).Width
        h == GetShape(m).Height
    IN  IF h <= 0 \/ w <= 0 \/ i >= h * w
        THEN [res |-> "ok", heap |-> hp]
        ELSE LET s == Set(m, NewPosition(i \div w, i % w), k, hp) IN
             IF s.res # "ok"
             THEN s
             ELSE ConstantLoop(k, m, s.heap, i + 1)

ApplyWithConstant(k, m, hp) ==
    IF k = 0
    THEN [res |-> "ok", heap |-> hp]
    ELSE ConstantLoop(k, m, hp, 0)

ApplyOpt(opt, m, hp) ==
    IF opt.kind = "WithData"
    THEN ApplyWithData(opt.data, m, hp)
    ELSE ApplyWithConstant(opt.k, m, hp)

\* for _, opt := range opts: the first error ends the construction.
RECURSIVE ApplyOpts(_, _, _, _)
ApplyOpts(opts, m, hp, i) ==
    IF i > Len(opts)
    THEN [res |-> "ok", heap |-> hp]
    ELSE LET r == ApplyOpt(opts[i], m, hp) IN
         IF r.res # "ok"
         THEN r
         ELSE ApplyOpts(opts, m, r.heap, i + 1)

\* New2D allocates shape.Height zeroed rows of shape.Width elements after the
\* arrays of hp, then applies the options in order.  On an error it returns
\* nil: the rows it allocated are unreachable and are dropped from the heap.
New2D(shape, opts, hp) ==
    LET rows == [i \in 1 .. shape.Height |->
                    SliceHeader(Len(hp) + i, 0, shape.Width, shape.Width)]
        hp0  == hp \o [i \in 1 .. shape.Height |-> [j \in 1 .. shape.Width |-> 0]]
        m    == Matrix2D(rows, shape)
        r    == ApplyOpts(opts, m, hp0, 1)
    IN  IF r.res = "ok"
        THEN [res |-> "ok", mat |-> m, heap |-> r.heap]
        ELSE [res |-> r.res, mat |-> NoMatrix, heap |-> hp]

-----------------------------------------------------------------------------
(* Package vector *)

\* The integer zero vector of the package.
ZERO == NewVector2D(0, 0)

\* v.Cross(w), T being int: the products stay far inside the 64 bits of int
\* for the coordinates the callers use, so none wraps.
Cross(v, w) == v.X * w.Y + v.Y * w.X

-----------------------------------------------------------------------------
(* The callers' inputs *)

\* The coordinates of the vectors given to Cross.
Coordinates == (0 - MaxCoordinate) .. MaxCoordinate

Vectors == {NewVector2D(xy[1], xy[2]) : xy \in Coordinates \X Coordinates}

Handles == {"m", "s"}

\* The shapes the callers build: at least one cell, at most MaxCells.
Shapes ==
    {NewShape(wh[1], wh[2]) : wh \in
        {wh \in (1 .. MaxWidth) \X (1 .. MaxHeight) : wh[1] * wh[2] <= MaxCells}}

\* Every height x width data of the shape.
WellFormed(shape) == [1 .. shape.Height -> [1 .. shape.Width -> Number]]

\* Data that disagrees with the shape: no rows, a row too few or too many, or
\* one row (any row) one element short or one element long.
Malformed(shape) ==
    {<<>>}
    \cup {SubSeq(d, 1, Len(d) - 1) : d \in WellFormed(shape)}
    \cup {Append(d, d[1]) : d \in WellFormed(shape)}
    \cup {[d EXCEPT ![r] = SubSeq(d[r], 1, Len(d[r]) - 1)] :
            <<d, r>> \in WellFormed(shape) \X (1 .. shape.Height)}
    \cup {[d EXCEPT ![r] = Append(d[r], 1)] :
            <<d, r>> \in WellFormed(shape) \X (1 .. shape.Height)}

\* The option lists given to New2D: none, one option, or the two in either order.
OptLists(shape) ==
    {<<>>}
    \cup {<<WithData(d)>> : d \in WellFormed(shape) \cup Malformed(shape)}
    \cup {<<WithConstant(k)>> : k \in Number}
    \cup {<<WithData(dk[1]), WithConstant(dk[2])>> : dk \in WellFormed(shape) \X Number}
    \cup {<<WithConstant(dk[2]), WithData(dk[1])>> : dk \in WellFormed(shape) \X Number}

\* The data of a source matrix built for Update: a single 1, in the last
\* column of the first row.
Corner(shape) ==
    [r \in 1 .. shape.Height |->
        [c \in 1 .. shape.Width |-> IF r = 1 /\ c = shape.Width THEN 1 ELSE 0]]

SourceOpts(shape) == {<<WithConstant(1)>>, <<WithData(Corner(shape))>>}

\* The largest cap of a row of m (0 without rows).
RowCap(m) ==
    IF Len(m.Values) = 0 THEN 0
    ELSE CHOOSE c \in {m.Values[i].cap : i \in DOMAIN m.Values} :
            \A i \in DOMAIN m.Values : m.Values[i].cap <= c

\* Row and column arguments: from one before the first to one past the last
\* that the shape or the storage of m admits.
RowArgs(m) == -1 .. Max(GetShape(m).Height, ValuesCap(m))

ColumnArgs(m) == -1 .. Max(GetShape(m).Width, RowCap(m))

Positions(m) == {NewPosition(rc[1], rc[2]) : rc \in RowArgs(m) \X ColumnArgs(m)}

ColumnRanges(m) == {NewVector2D(ab[1], ab[2]) : ab \in ColumnArgs(m) \X ColumnArgs(m)}

RowRanges(m) == {NewVector2D(ab[1], ab[2]) : ab \in RowArgs(m) \X RowArgs(m)}

\* The source matrices built for an Update: each with the heap that holds it.
NewSources(hp) ==
    {New2D(so[1], so[2], hp) : so \in
        UNION {{<<shape, opts>> : opts \in SourceOpts(shape)} : shape \in Shapes}}

-----------------------------------------------------------------------------
(* The state machine: a caller's sequence of calls *)

\* No Slice has returned s.
NoOrigin == [x |-> NewVector2D(0, -1), y |-> NewVector2D(0, -1)]

NoArgs == NewShape(0, 0)

\* The caller holds v and w and has not called Cross on them.
NoCross(v, w) == [v |-> v, w |-> w, called |-> FALSE, cross |-> 0]

Constructed(shape, opts, res) ==
    [op |-> "New2D", res |-> res, shape |-> shape, opts |-> opts]

Called(op, res) == [op |-> op, res |-> res, shape |-> NoArgs, opts |-> <<>>]

Init ==
    /\ heap = <<>>
    /\ mats = [h \in Handles |-> NoMatrix]
    /\ origin = NoOrigin
    /\ last = Called("", "")
    /\ vec = NoCross(ZERO, ZERO)

\* m, err := New2D(shape, opts...)
CallNew2D ==
    /\ mats["m"] = NoMatrix
    /\ \E shape \in Shapes : \E opts \in OptLists(shape) :
        LET r == New2D(shape, opts, <<>>) IN
        /\ heap' = r.heap
        /\ mats' = [mats EXCEPT !["m"] = r.mat]
        /\ last' = Constructed(shape, opts, r.res)
    /\ UNCHANGED <<origin, vec>>

\* err := h.Set(p, v)
CallSet(h) ==
    /\ mats[h] # NoMatrix
    /\ \E p \in Positions(mats[h]) : \E v \in Number :
        LET r == Set(mats[h], p, v, heap) IN
        /\ heap' = r.heap
        /\ last' = Called("Set", r.res)
    /\ UNCHANGED <<mats, origin, vec>>

\* v, err := h.At(p)
CallAt(h) ==
    /\ mats[h] # NoMatrix
    /\ \E p \in Positions(mats[h]) :
        LET r == At(mats[h], p, heap) IN
        last' = Called("At", r.res)
    /\ UNCHANGED <<heap, mats, origin, vec>>

\* r, err := m.Slice(x, y); the caller keeps r as s when err is nil
CallSlice ==
    /\ mats["m"] # NoMatrix
    /\ \E x \in ColumnRanges(mats["m"]) : \E y \in RowRanges(mats["m"]) :
        LET r == Slice(mats["m"], x, y) IN
        /\ last' = Called("Slice", r.res)
        /\ IF r.res = "ok"
           THEN /\ mats' = [mats EXCEPT !["s"] = r.mat]
                /\ origin' = [x |-> x, y |-> y]
           ELSE UNCHANGED <<mats, origin>>
    /\ UNCHANGED <<heap, vec>>

\* err := t.Update(at, h), the source being the caller's matrix h
CallUpdate(t, h) ==
    /\ mats[t] # NoMatrix
    /\ mats[h] # NoMatrix
    /\ \E at \in Positions(mats[t]) :
        LET r == Update(mats[t], at, mats[h], heap) IN
        /\ heap' = r.heap
        /\ last' = Called("Update", r.res)
    /\ UNCHANGED <<mats, origin, vec>>

\* mu, _ := New2D(shape, opts...); err := t.Update(at, mu): the source is a
\* matrix built for the call and dropped after it
CallUpdateNew(t) ==
    /\ mats[t] # NoMatrix
    /\ \E mu \in NewSources(heap) : \E at \in Positions(mats[t]) :
        LET r == Update(mats[t], at, mu.mat, mu.heap) IN
        /\ heap' = SubSeq(r.heap, 1, Len(heap))
        /\ last' = Called("UpdateNew", r.res)
    /\ UNCHANGED <<mats, origin, vec>>

Next ==
    \/ CallNew2D
    \/ \E h \in Handles : CallSet(h)
    \/ \E h \in Handles : CallAt(h)
    \/ CallSlice
    \/ \E t \in Handles : \E h \in Handles : CallUpdate(t, h)
    \/ \E t \in Handles : CallUpdateNew(t)

Spec == Init /\ [][Next]_vars

-----------------------------------------------------------------------------
(* A second caller, for Update from a view that overlaps its target: it      *)
(* builds the largest matrix, MaxWidth x MaxHeight, slices it and pastes the *)
(* slice into it.                                                            *)

CallNew2DLargest ==
    /\ mats["m"] = NoMatrix
    /\ \E d \in WellFormed(NewShape(MaxWidth, MaxHeight)) :
        LET r == New2D(NewShape(MaxWidth, MaxHeight), <<WithData(d)>>, <<>>) IN
        /\ heap' = r.heap
        /\ mats' = [mats EXCEPT !["m"] = r.mat]
        /\ last' = Called("New2D", r.res)
    /\ UNCHANGED <<origin, vec>>

NextOverlap ==
    \/ CallNew2DLargest
    \/ CallSlice
    \/ CallUpdate("m", "s")

SpecOverlap == Init /\ [][NextOverlap]_vars

-----------------------------------------------------------------------------
(* A third caller, of package vector: it builds two vectors and takes their *)
(* cross product.                                                           *)

\* v := vector.New2D(x, y)
CallNewV ==
    /\ \E v \in Vectors : vec' = NoCross(v, vec.w)
    /\ UNCHANGED <<heap, mats, origin, last>>

\* w := vector.New2D(x, y)
CallNewW ==
    /\ \E w \in Vectors : vec' = NoCross(vec.v, w)
    /\ UNCHANGED <<heap, mats, origin, last>>

\* c := v.Cross(w)
CallCross ==
    /\ vec' = [vec EXCEPT !.called = TRUE, !.cross = Cross(vec.v, vec.w)]
    /\ UNCHANGED <<heap, mats, origin, last>>

NextVector ==
    \/ CallNewV
    \/ CallNewW
    \/ CallCross

SpecVector == Init /\ [][NextVector]_vars

-----------------------------------------------------------------------------
(* What the properties speak of *)

Live(h) == mats[h] # NoMatrix

\* The <<row, column>> indices of the elements m.Values stores.
Indices(m) ==
    UNION {{<<i - 1, j>> : j \in 0 .. (m.Values[i].len - 1)} : i \in DOMAIN m.Values}

\* The heap addresses of the elements m.Values stores.
Addrs(m) == {CellAddr(m, ij[1], ij[2]) : ij \in Indices(m)}

HeapAddrs(hp) == UNION {{<<a, i>> : i \in DOMAIN hp[a]} : a \in DOMAIN hp}

\* hp1 and hp2 hold the same arrays and differ at most at the addresses in addrs.
SameExcept(hp1, hp2, addrs) ==
    /\ HeapAddrs(hp1) = HeapAddrs(hp2)
    /\ \A a \in HeapAddrs(hp1) \ addrs : Load(hp1, a) = Load(hp2, a)

\* The source matrices of an Update: the caller's own and the ones built for
\* the call, each with the heap that holds it.
Sources ==
    NewSources(heap) \cup {[res |-> "ok", mat |-> mats[h], heap |-> heap] : h \in {g \in Handles : Live(g)}}

\* The inclusive ranges inside n elements: 0 <= start <= end < n.
ValidRanges(n) ==
    {NewVector2D(ab[1], ab[2]) : ab \in {ab \in (0 .. n - 1) \X (0 .. n - 1) : ab[1] <= ab[2]}}

-----------------------------------------------------------------------------
(* C1 *)

\* C1 (as claimed): for every matrix and every position inside its Shape,
\* Set(p, v) returns no error, a following At(p) returns v with no error, and
\* every other cell keeps its value.
C1_SetThenAt ==
    \A h \in Handles : Live(h) =>
        \A p \in Positions(mats[h]) : \A v \in Number :
            ~isPositionOutOfBounds(mats[h], p) =>
                LET r == Set(mats[h], p, v, heap) IN
                /\ r.res = "ok"
                /\ At(mats[h], p, r.heap) = [res |-> "ok", val |-> v]
                /\ SameExcept(heap, r.heap, {CellAddr(mats[h], p.Row, p.Column)})

-----------------------------------------------------------------------------
(* C2 *)

\* C2: for every matrix and every position outside its Shape (a negative row
\* or column, or one at or past the Shape's height or width), Set and At both
\* return an error and Set leaves every cell as it was.
C2_OutOfBoundsRejected ==
    \A h \in Handles : Live(h) =>
        \A p \in Positions(mats[h]) : \A v \in Number :
            (\/ p.Row < 0
             \/ p.Row >= mats[h].Shape.Height
             \/ p.Column < 0
             \/ p.Column >= mats[h].Shape.Width) =>
                /\ Set(mats[h], p, v, heap) = [res |-> "err", heap |-> heap]
                /\ At(mats[h], p, heap).res = "err"

\* A Set on a view of a matrix that holds a 1 has just returned an error.
C2_Witness ==
    /\ last = Called("Set", "err")
    /\ Live("s")
    /\ \E a \in HeapAddrs(heap) : Load(heap, a) = 1

-----------------------------------------------------------------------------
(* C3 *)

\* C3 (as claimed): once m.Slice over columns [c0,c1] and rows [r0,r1] has
\* returned s, and whatever is set later, s.At(i, j) succeeds for every
\* 0 <= i <= r1-r0 and 0 <= j <= c1-c0 and returns what m.At(r0+i, c0+j) does.
C3_SliceAliasesParent ==
    Live("s") =>
        \A i \in 0 .. (origin.y.Y - origin.y.X) : \A j \in 0 .. (origin.x.Y - origin.x.X) :
            LET a == At(mats["s"], NewPosition(i, j), heap)
                b == At(mats["m"], NewPosition(origin.y.X + i, origin.x.X + j), heap)
            IN  a.res = "ok" /\ b.res = "ok" /\ a.val = b.val

-----------------------------------------------------------------------------
(* C4 *)

\* The cells of the target that a paste of src at position at covers.
Pasted(target, at, src) ==
    {CellAddr(target, at.Row + i, at.Column + j) :
        <<i, j>> \in (0 .. src.Shape.Height - 1) \X (0 .. src.Shape.Width - 1)}

\* C4: when t.Update(at, src) returns no error and src shares no storage with
\* t, then t's cell (at.Row+i, at.Column+j) holds src's cell (i, j) for every
\* i below src's height and j below src's width, every other cell of t and
\* every cell of src holds what it held before.
C4_UpdatePastes ==
    \A t \in Handles : Live(t) =>
        \A src \in Sources : \A at \in Positions(mats[t]) :
            LET r == Update(mats[t], at, src.mat, src.heap) IN
            (r.res = "ok" /\ Addrs(mats[t]) \cap Addrs(src.mat) = {}) =>
                /\ \A i \in 0 .. src.mat.Shape.Height - 1 :
                   \A j \in 0 .. src.mat.Shape.Width - 1 :
                        /\ At(src.mat, NewPosition(i, j), src.heap).res = "ok"
                        /\ At(mats[t], NewPosition(at.Row + i, at.Column + j), r.heap)
                            = At(src.mat, NewPosition(i, j), src.heap)
                /\ SameExcept(src.heap, r.heap, Pasted(mats[t], at, src.mat))

\* An Update from a matrix built for it has just left the 2 x 2 matrix m with
\* ones in its right column only: a 1-wide, 2-high paste at row 0, column 1.
C4_Witness ==
    /\ last = Called("UpdateNew", "ok")
    /\ mats["m"].Shape = NewShape(2, 2)
    /\ heap = <<(<<0, 1>>), (<<0, 1>>)>>

-----------------------------------------------------------------------------
(* C5 *)

\* C5: t.Update(at, src) returns an error exactly when at is outside t's
\* Shape or the paste region passes t's right or bottom edge (a region that
\* ends exactly on the edge is not an error), and an Update that returns an
\* error has changed no cell.
C5_UpdateErrors ==
    \A t \in Handles : Live(t) =>
        \A src \in Sources : \A at \in Positions(mats[t]) :
            LET r == Update(mats[t], at, src.mat, src.heap) IN
            /\ r.res = "err" <=>
                \/ at.Row < 0
                \/ at.Row >= mats[t].Shape.Height
                \/ at.Column < 0
                \/ at.Column >= mats[t].Shape.Width
                \/ at.Column + src.mat.Shape.Width > mats[t].Shape.Width
                \/ at.Row + src.mat.Shape.Height > mats[t].Shape.Height
            /\ r.res = "err" => r.heap = src.heap

\* An Update of a matrix that holds a 1 has just returned an error, and a
\* paste that ends exactly on both far edges of m is possible.
C5_Witness ==
    /\ last = Called("UpdateNew", "err")
    /\ \E a \in HeapAddrs(heap) : Load(heap, a) = 1
    /\ \E src \in NewSources(heap) : \E at \in Positions(mats["m"]) :
        /\ at.Row > 0 \/ at.Column > 0
        /\ at.Column + src.mat.Shape.Width = mats["m"].Shape.Width
        /\ at.Row + src.mat.Shape.Height = mats["m"].Shape.Height
        /\ Update(mats["m"], at, src.mat, src.heap).res = "ok"

-----------------------------------------------------------------------------
(* C6 *)

\* C6 (as claimed): whenever t.Update(at, src) succeeds, src built by New2D or
\* a view of any matrix, t itself included, the same Update applied again
\* leaves t with the contents the first one left.
C6_UpdateIdempotent ==
    \A t \in Handles : Live(t) =>
        \A src \in Sources : \A at \in Positions(mats[t]) :
            LET first == Update(mats[t], at, src.mat, src.heap) IN
            first.res = "ok" =>
                Update(mats[t], at, src.mat, first.heap) = first

-----------------------------------------------------------------------------
(* C7 *)

\* C7 (as claimed): for every matrix New2D builds, square or not, and every
\* pair of ranges inside it, 0 <= c0 <= c1 < Width and 0 <= r0 <= r1 < Height,
\* Slice returns no error and r1-r0+1 rows of c1-c0+1 elements, element (i, j)
\* being the matrix's cell (r0+i, c0+j).
C7_SliceInside ==
    \A h \in {"m"} : Live(h) =>
        \A x \in ValidRanges(mats[h].Shape.Width) :
        \A y \in ValidRanges(mats[h].Shape.Height) :
            LET r == Slice(mats[h], x, y) IN
            /\ r.res = "ok"
            /\ Len(r.mat.Values) = y.Y - y.X + 1
            /\ \A i \in 0 .. (y.Y - y.X) :
                /\ r.mat.Values[i + 1].len = x.Y - x.X + 1
                /\ \A j \in 0 .. (x.Y - x.X) :
                    CellAddr(r.mat, i, j) = CellAddr(mats[h], y.X + i, x.X + j)

-----------------------------------------------------------------------------
(* C8 *)

\* C8 (as claimed): Slice returns an error and no matrix whenever the column
\* extent c1-c0+1 is negative or exceeds the Width, or the row extent r1-r0+1
\* is negative or exceeds the Height.
C8_SliceRejectsExtents ==
    \A h \in Handles : Live(h) =>
        \A x \in ColumnRanges(mats[h]) : \A y \in RowRanges(mats[h]) :
            (\/ x.Y - x.X + 1 < 0
             \/ x.Y - x.X + 1 > mats[h].Shape.Width
             \/ y.Y - y.X + 1 < 0
             \/ y.Y - y.X + 1 > mats[h].Shape.Height) =>
                Slice(mats[h], x, y) = [res |-> "err", mat |-> NoMatrix]

-----------------------------------------------------------------------------
(* C9 *)

\* C9 (as claimed): on every reachable matrix and for every argument, Set, At,
\* Slice and Update succeed or return an error; none panics.
C9_NoPanic ==
    \A h \in Handles : Live(h) =>
        /\ \A p \in Positions(mats[h]) :
            /\ At(mats[h], p, heap).res # "panic"
            /\ \A v \in Number : Set(mats[h], p, v, heap).res # "panic"
            /\ \A src \in Sources : Update(mats[h], p, src.mat, src.heap).res # "panic"
        /\ \A x \in ColumnRanges(mats[h]) : \A y \in RowRanges(mats[h]) :
            Slice(mats[h], x, y).res # "panic"

-----------------------------------------------------------------------------
(* C10 *)

\* C10 (as claimed): New2D(shape, WithData(rows)) returns an error and no
\* matrix when rows is empty, has not shape.Height rows, or has any row whose
\* length is not shape.Width; otherwise it returns the matrix whose cell
\* (r, c) is rows[r][c].
C10_WithDataValidates ==
    (last.op = "New2D" /\ Len(last.opts) = 1 /\ last.opts[1].kind = "WithData") =>
        LET rows == last.opts[1].data IN
        IF \/ Len(rows) = 0
           \/ Len(rows) # last.shape.Height
           \/ \E r \in DOMAIN rows : Len(rows[r]) # last.shape.Width
        THEN last.res = "err" /\ mats["m"] = NoMatrix
        ELSE /\ last.res = "ok"
             /\ mats["m"].Shape = last.shape
             /\ \A r \in 1 .. last.shape.Height : \A c \in 1 .. last.shape.Width :
                    At(mats["m"], NewPosition(r - 1, c - 1), heap)
                        = [res |-> "ok", val |-> rows[r][c]]

-----------------------------------------------------------------------------
(* C11 *)

\* Every cell of the shape reads v in m.
AllCells(m, shape, hp, v) ==
    \A r \in 0 .. (shape.Height - 1) : \A c \in 0 .. (shape.Width - 1) :
        At(m, NewPosition(r, c), hp) = [res |-> "ok", val |-> v]

\* C11 (as claimed): the options are applied in the order given and the later
\* one wins.  New2D(shape, WithData(d), WithConstant(k)) yields a matrix whose
\* every cell is k; New2D(shape, WithConstant(k), WithData(d)) yields the
\* matrix equal to d; with no option, or WithConstant(0) alone, every cell is 0.
C11_LaterPolicyWins ==
    (last.op = "New2D" /\ last.shape \in Shapes) =>
        LET opts  == last.opts
            shape == last.shape
            m     == mats["m"]
        IN  /\ (opts = <<>> \/ opts = <<WithConstant(0)>>) =>
                /\ last.res = "ok"
                /\ AllCells(m, shape, heap, 0)
            /\ \A d \in WellFormed(shape) : \A k \in Number :
                /\ opts = <<WithData(d), WithConstant(k)>> =>
                    /\ last.res = "ok"
                    /\ AllCells(m, shape, heap, k)
                /\ opts = <<WithConstant(k), WithData(d)>> =>
                    /\ last.res = "ok"
                    /\ \A r \in 1 .. shape.Height : \A c \in 1 .. shape.Width :
                        At(m, NewPosition(r - 1, c - 1), heap)
                            = [res |-> "ok", val |-> d[r][c]]

-----------------------------------------------------------------------------
(* C12 *)

\* m stores exactly Shape.Height rows, each of exactly Shape.Width elements.
StoresItsShape(m) ==
    /\ Len(m.Values) = GetShape(m).Height
    /\ \A i \in DOMAIN m.Values : m.Values[i].len = GetShape(m).Width

\* The ranges [c0,c1] and [r0,r1] name a region: 0 <= c0 <= c1 and 0 <= r0 <= r1.
ProperRanges(x, y) == x.X >= 0 /\ x.X <= x.Y /\ y.X >= 0 /\ y.X <= y.Y

\* C12 (as claimed): every matrix the caller holds, built by New2D or returned
\* by a successful Slice over a region [c0,c1] x [r0,r1], after any sequence of
\* Set and Update calls, stores exactly Shape.Height rows of exactly
\* Shape.Width elements each; and every successful Slice of one over a region
\* returns a matrix that does so too and reports Width = c1-c0+1 and
\* Height = r1-r0+1.
C12_ShapeMatchesStorage ==
    /\ Live("m") => StoresItsShape(mats["m"])
    /\ (Live("s") /\ ProperRanges(origin.x, origin.y)) =>
            /\ StoresItsShape(mats["s"])
            /\ GetShape(mats["s"])
                = NewShape(origin.x.Y - origin.x.X + 1, origin.y.Y - origin.y.X + 1)
    /\ \A h \in Handles : Live(h) =>
        \A x \in ColumnRanges(mats[h]) : \A y \in RowRanges(mats[h]) :
            LET r == Slice(mats[h], x, y) IN
            (ProperRanges(x, y) /\ r.res = "ok") =>
                /\ StoresItsShape(r.mat)
                /\ GetShape(r.mat) = NewShape(x.Y - x.X + 1, y.Y - y.X + 1)

-----------------------------------------------------------------------------
(* C13 *)

\* C13 (as claimed): for all integer vectors v and w in the bounded range,
\* v.Cross(w) is the signed area v.X*w.Y - v.Y*w.X of their parallelogram;
\* hence v.Cross(v) = 0 and v.Cross(w) = -(w.Cross(v)).
C13_CrossSignedArea ==
    vec.called =>
        /\ vec.cross = vec.v.X * vec.w.Y - vec.v.Y * vec.w.X
        /\ Cross(vec.v, vec.v) = 0
        /\ Cross(vec.v, vec.w) = 0 - Cross(vec.w, vec.v)

-----------------------------------------------------------------------------
(* C14 *)

\* The heap addresses of the cells of m in rows y.X .. y.Y, columns x.X .. x.Y.
Region(m, x, y) ==
    {CellAddr(m, rc[1], rc[2]) : rc \in (y.X .. y.Y) \X (x.X .. x.Y)}

\* s is a view of m over a region inside m: columns [c0,c1], rows [r0,r1].
IsView ==
    /\ Live("m")
    /\ Live("s")
    /\ ProperRanges(origin.x, origin.y)
    /\ origin.x.Y < GetShape(mats["m"]).Width
    /\ origin.y.Y < GetShape(mats["m"]).Height

\* C14 (as claimed): when s is the view m.Slice returned over columns [c0,c1]
\* and rows [r0,r1], every s.Slice((a,b),(p,q)) over non-empty ranges
\* (0 <= a <= b, 0 <= p <= q) with b > c1-c0 or q > r1-r0
\* returns no matrix (the claim says an error; a panic passes here too, C9
\* speaks of those), and every matrix a successful s.Slice returns holds only
\* cells of m inside rows [r0,r1] and columns [c0,c1].
C14_SliceStaysInView ==
    IsView =>
        \A x \in ColumnRanges(mats["s"]) : \A y \in RowRanges(mats["s"]) :
            LET r == Slice(mats["s"], x, y) IN
            ProperRanges(x, y) =>
                /\ (x.Y > origin.x.Y - origin.x.X \/ y.Y > origin.y.Y - origin.y.X) =>
                        r.res # "ok"
                /\ r.res = "ok" =>
                        Addrs(r.mat) \subseteq Region(mats["m"], origin.x, origin.y)

=============================================================================
